---- MODULE Spec2Model ----
(***************************************************************************)
(* A model of driver/config/config.go: the typed accessor layer over the   *)
(* configuration source (configx.Provider), its derived-value algorithms   *)
(* and the lazy provisioning of the default secret.                        *)
(*                                                                         *)
(* A dotted key is a tuple of its components ("secrets.default" is         *)
(* <<"secrets", "default">>).  A value of the document is a tagged record, *)
(* one tag per Go dynamic type the accessors distinguish.                  *)
(***************************************************************************)
EXTENDS Integers, Sequences, FiniteSets, TLC

VARIABLES
    doc,        \* the generation the source currently serves: key -> value
    boot,       \* the generation loaded at construction
    forced,     \* the values persisted through Set: key -> value
    hostname,   \* what os.Hostname() answers: [ok, name]
    numCPU,     \* what runtime.NumCPU() answers
    Argon2DefaultParallelism,   \* the package variable of line 167
    pc,         \* per caller: its position inside the accessor it runs
    local,      \* per caller: the local variables of the running accessor
    ret,        \* per caller: what its last completed accessor returned
    calls,      \* the number of accessor calls started so far
    seen,       \* per caller: the generations served while its call ran
    writes,     \* the Set calls the source has accepted, in order
    uuids,      \* the number of uuid.New() calls so far
    reloads,    \* the number of watch events handled so far
    lastReload, \* the outcome of the last watch event
    fatal       \* the logger's Fatal was called: the process has ended

\* What the process is given at its start.
env == <<hostname, numCPU, Argon2DefaultParallelism>>

vars == <<doc, boot, forced, env, pc, local, ret, calls, seen, writes,
          uuids, reloads, lastReload, fatal>>

(***************************************************************************)
(* Bounds of the model.                                                    *)
(***************************************************************************)
MaxCalls == 3
MaxReloads == 1
MaxSchemas == 2
MaxHooks == 2

\* The request-handling goroutines that share the Config.
Callers == {"a", "b"}

(***************************************************************************)
(* Values of the document.                                                 *)
(***************************************************************************)
Absent == [kind |-> "absent"]
StrV(s) == [kind |-> "string", str |-> s]
IntV(n) == [kind |-> "int", int |-> n]
BoolV(b) == [kind |-> "bool", bool |-> b]
ListV(l) == [kind |-> "list", list |-> l]
URLV(u) == [kind |-> "url.URL", url |-> u]
URLPtrV(u) == [kind |-> "*url.URL", url |-> u]
JsonV(j) == [kind |-> "json", json |-> j]

(***************************************************************************)
(* The keys of config.go, lines 36-103.                                    *)
(***************************************************************************)
DefaultIdentityTraitsSchemaID == "default"
ViperKeySecretsDefault == <<"secrets", "default">>
ViperKeySecretsCookie == <<"secrets", "cookie">>
ViperKeyPublicBaseURL == <<"serve", "public", "base_url">>
ViperKeyPublicPort == <<"serve", "public", "port">>
ViperKeyPublicHost == <<"serve", "public", "host">>
ViperKeyAdminBaseURL == <<"serve", "admin", "base_url">>
ViperKeyAdminPort == <<"serve", "admin", "port">>
ViperKeyAdminHost == <<"serve", "admin", "host">>
ViperKeySelfServiceStrategyConfig == <<"selfservice", "methods">>
ViperKeyDefaultIdentitySchemaURL == <<"identity", "default_schema_url">>
ViperKeyIdentitySchemas == <<"identity", "schemas">>
KeyDev == <<"dev">>

ViperKeySelfServiceRegistrationAfter ==
    <<"selfservice", "flows", "registration", "after">>
ViperKeySelfServiceRegistrationBeforeHooks ==
    <<"selfservice", "flows", "registration", "before", "hooks">>
ViperKeySelfServiceLoginAfter == <<"selfservice", "flows", "login", "after">>
ViperKeySelfServiceLoginBeforeHooks ==
    <<"selfservice", "flows", "login", "before", "hooks">>
ViperKeySelfServiceSettingsAfter == <<"selfservice", "flows", "settings", "after">>

\* HookStrategyKey, lines 169-171: key.strategy.hooks
HookStrategyKey(key, strategy) == key \o <<strategy, "hooks">>

\* The strategies whose hooks the model configures.
HookStrategies == {"password", "oidc"}

HookKeys ==
    {ViperKeySelfServiceLoginBeforeHooks,
     ViperKeySelfServiceRegistrationBeforeHooks}
    \cup {HookStrategyKey(k, s) :
            k \in {ViperKeySelfServiceLoginAfter,
                   ViperKeySelfServiceRegistrationAfter,
                   ViperKeySelfServiceSettingsAfter},
            s \in HookStrategies}

DefaultSQLiteMemoryDSN == "sqlite://:memory:?_fk=true"
ViperKeyDSN == <<"dsn">>
ViperKeySessionSameSite == <<"session", "cookie", "same_site">>

DefaultBrowserReturnURL == "default_browser_return_url"
ViperKeySelfServiceBrowserDefaultReturnTo ==
    <<"selfservice", DefaultBrowserReturnURL>>

\* The strategies whose return-to override the model configures.
ReturnToStrategies == {"password", "oidc"}

ReturnToKeys ==
    {ViperKeySelfServiceBrowserDefaultReturnTo}
    \cup {k \o <<DefaultBrowserReturnURL>> :
            k \in {ViperKeySelfServiceLoginAfter,
                   ViperKeySelfServiceRegistrationAfter}}
    \cup {k \o <<s, DefaultBrowserReturnURL>> :
            k \in {ViperKeySelfServiceLoginAfter,
                   ViperKeySelfServiceRegistrationAfter},
            s \in ReturnToStrategies}

ViperKeyHasherArgon2ConfigMemory == <<"hashers", "argon2", "memory">>
ViperKeyHasherArgon2ConfigIterations == <<"hashers", "argon2", "iterations">>
ViperKeyHasherArgon2ConfigParallelism == <<"hashers", "argon2", "parallelism">>
ViperKeyHasherArgon2ConfigSaltLength == <<"hashers", "argon2", "salt_length">>
ViperKeyHasherArgon2ConfigKeyLength == <<"hashers", "argon2", "key_length">>
ViperKeyHasherArgon2ConfigExpectedDuration ==
    <<"hashers", "argon2", "expected_duration">>
ViperKeyHasherArgon2ConfigExpectedDeviation ==
    <<"hashers", "argon2", "expected_deviation">>
ViperKeyHasherArgon2ConfigDedicatedMemory ==
    <<"hashers", "argon2", "dedicated_memory">>

Argon2Keys ==
    {ViperKeyHasherArgon2ConfigMemory, ViperKeyHasherArgon2ConfigIterations,
     ViperKeyHasherArgon2ConfigParallelism, ViperKeyHasherArgon2ConfigSaltLength,
     ViperKeyHasherArgon2ConfigKeyLength,
     ViperKeyHasherArgon2ConfigExpectedDuration,
     ViperKeyHasherArgon2ConfigExpectedDeviation,
     ViperKeyHasherArgon2ConfigDedicatedMemory}

StrategyNames == {"password", "profile", "link", "oidc"}

Keys ==
    {ViperKeySecretsDefault, ViperKeySecretsCookie,
     ViperKeyPublicBaseURL, ViperKeyPublicPort, ViperKeyPublicHost,
     ViperKeyAdminBaseURL, ViperKeyAdminPort, ViperKeyAdminHost,
     ViperKeyDefaultIdentitySchemaURL, ViperKeyIdentitySchemas, KeyDev}
    \cup {ViperKeySelfServiceStrategyConfig \o <<s, f>> :
            s \in StrategyNames, f \in {"enabled", "config"}}
    \cup HookKeys
    \cup {ViperKeyDSN, ViperKeySessionSameSite}
    \cup ReturnToKeys
    \cup Argon2Keys

\* A document that holds the values of o and nothing else.
DocOf(o) == [k \in Keys |-> IF k \in DOMAIN o THEN o[k] ELSE Absent]

EmptyDoc == [k \in Keys |-> Absent]

(***************************************************************************)
(* The configuration source: typed reads of one key of a document d.       *)
(***************************************************************************)
Exists(d, key) == d[key] # Absent

Get(d, key) == d[key]

Strings(d, key) == IF d[key].kind = "list" THEN d[key].list ELSE <<>>

String(d, key) == IF d[key].kind = "string" THEN d[key].str ELSE ""

Bool(d, key) == IF d[key].kind = "bool" THEN d[key].bool ELSE FALSE

StringF(d, key, fallback) ==
    IF ~Exists(d, key) THEN fallback ELSE String(d, key)

IntF(d, key, fallback) ==
    IF ~Exists(d, key) THEN fallback
    ELSE IF d[key].kind = "int" THEN d[key].int ELSE 0

\* bytesize.Parse, tabulated on the strings the documents of the model hold;
\* a ByteSize is a number of bytes.
ParseByteSize(raw) ==
    CASE raw = "64MB" -> [ok |-> TRUE, bytes |-> 64 * 2^20]
      [] raw = "256MB" -> [ok |-> TRUE, bytes |-> 256 * 2^20]
      [] raw = "512MB" -> [ok |-> TRUE, bytes |-> 512 * 2^20]
      [] OTHER -> [ok |-> FALSE]

ByteSizeF(d, key, fallback) ==
    IF d[key].kind = "string" /\ ParseByteSize(d[key].str).ok
    THEN ParseByteSize(d[key].str).bytes
    ELSE fallback

\* time.ParseDuration, tabulated; a Duration is a number of nanoseconds.
ParseDuration(raw) ==
    CASE raw = "250ms" -> 250 * 10^6
      [] raw = "1s" -> 10^9
      [] OTHER -> 0

DurationF(d, key, fallback) ==
    IF ~Exists(d, key) THEN fallback
    ELSE IF d[key].kind = "string" THEN ParseDuration(d[key].str) ELSE 0

\* Marshal followed by gjson.GetBytes(out, key).Raw: the JSON text of the
\* value at key, empty for a key the document does not hold.
Raw(d, key) ==
    CASE d[key].kind = "absent" -> ""
      [] d[key].kind = "json" -> d[key].json
      [] d[key].kind = "bool" -> IF d[key].bool THEN "true" ELSE "false"
      [] OTHER -> "[...]"

\* Set: the value is written into the served generation and kept.
SetDoc(d, key, value) == [d EXCEPT ![key] = value]

\* The values persisted through Set survive a reload.
Overlay(file, f) == [k \in Keys |-> IF f[k] # Absent THEN f[k] ELSE file[k]]

(***************************************************************************)
(* New: the subtrees declared immutable across reload.                     *)
(***************************************************************************)
ImmutablesWithoutServe == {"profiling", "log"}

Immutables == {"serve", "profiling", "log"}

ImmutableChanged(old, new) ==
    \E k \in Keys : k[1] \in Immutables /\ old[k] # new[k]

(***************************************************************************)
(* Callers.                                                                *)
(***************************************************************************)
Idle == [op |-> "none"]

NoRet == [op |-> "none", n |-> 0]

CanStart(c) == /\ ~fatal
               /\ pc[c] = "idle"
               /\ calls < MaxCalls

Begin(c) == calls' = calls + 1

\* The call of c returns r; n tells the returns of one caller apart.
Return(c, r) ==
    /\ pc' = [pc EXCEPT ![c] = "idle"]
    /\ local' = [local EXCEPT ![c] = Idle]
    /\ ret' = [ret EXCEPT ![c] = r @@ [n |-> calls']]

\* c returns in this step.
Returned(c) == ret'[c] # ret[c]

(***************************************************************************)
(* Secret provisioning.                                                    *)
(***************************************************************************)
\* []byte(v)
Bytes(s) == [bytes |-> s]

\* result[k] = []byte(v) for every element of secrets
ToResult(secrets) == [k \in 1..Len(secrets) |-> Bytes(secrets[k])]

\* uuid.New().String(): the n-th token drawn, unlike every other one
UuidString(n) == "uuid-" \o ToString(n)

\* What a secrets accessor returns: the list, the value it passed to Set (none:
\* the empty list) and whether SecretsDefault computed the list.
SecretsRet(op, secrets, set, default) ==
    [op |-> op, val |-> ToResult(secrets), set |-> set, default |-> default]

\* SecretsDefault, line 449.
SecretsDefaultAlwaysGenerates(secrets) == Len(secrets) >= 0

SecretsDefaultNeedsSecret(secrets) == Len(secrets) = 0

\* SecretsDefault, line 447 and, for a list that is not empty, lines 454-459.
\* The step is the entry of a direct call and of the call SecretsSession makes.
SecretsDefaultRead(c) ==
    /\ ~fatal
    /\ \/ /\ CanStart(c)
          /\ Begin(c)
       \/ /\ pc[c] = "SecretsDefault"
          /\ UNCHANGED calls
    /\ LET op == IF pc[c] = "idle" THEN "SecretsDefault" ELSE local[c].op
           secrets == Strings(doc, ViperKeySecretsDefault)
       IN  IF SecretsDefaultNeedsSecret(secrets)
           THEN /\ pc' = [pc EXCEPT ![c] = "MustSet"]
                /\ local' = [local EXCEPT ![c] = [op |-> op]]
                /\ ret' = ret
           ELSE Return(c, SecretsRet(op, secrets, <<>>, TRUE))
    /\ UNCHANGED <<doc, boot, forced, env, seen, writes, uuids, reloads,
                   lastReload, fatal>>

\* SecretsDefault, line 450.
GeneratedNothing(n) == <<>>

GeneratedSecrets(n) == <<UuidString(n)>>

\* SecretsDefault, lines 450-459, when Set accepts the value.
SecretsDefaultMustSet(c) ==
    /\ ~fatal
    /\ pc[c] = "MustSet"
    /\ calls' = calls
    /\ LET secrets == GeneratedSecrets(uuids + 1)
       IN  /\ uuids' = uuids + 1
           /\ doc' = SetDoc(doc, ViperKeySecretsDefault, ListV(secrets))
           /\ forced' = SetDoc(forced, ViperKeySecretsDefault, ListV(secrets))
           /\ writes' = Append(writes, <<ViperKeySecretsDefault, secrets>>)
           /\ Return(c, SecretsRet(local[c].op, secrets, <<secrets>>, TRUE))
    /\ UNCHANGED <<boot, env, seen, reloads, lastReload, fatal>>

\* MustSet, lines 246-248, when Set answers an error: the process ends.
SecretsDefaultMustSetFatal(c) ==
    /\ ~fatal
    /\ pc[c] = "MustSet"
    /\ fatal' = TRUE
    /\ uuids' = uuids + 1
    /\ UNCHANGED <<doc, boot, forced, env, pc, local, ret, calls, seen,
                   writes, reloads, lastReload>>

\* SecretsSession, line 464.
SecretsSessionNeverFallsBack(secrets) == FALSE

SecretsSessionFallsBack(secrets) == Len(secrets) = 0

\* SecretsSession, lines 463-473.
SecretsSessionRead(c) ==
    /\ CanStart(c)
    /\ Begin(c)
    /\ LET secrets == Strings(doc, ViperKeySecretsCookie)
       IN  IF SecretsSessionFallsBack(secrets)
           THEN /\ pc' = [pc EXCEPT ![c] = "SecretsDefault"]
                /\ local' = [local EXCEPT ![c] = [op |-> "SecretsSession"]]
                /\ ret' = ret
           ELSE Return(c, SecretsRet("SecretsSession", secrets, <<>>, FALSE))
    /\ UNCHANGED <<doc, boot, forced, env, seen, writes, uuids, reloads,
                   lastReload, fatal>>

(***************************************************************************)
(* URLs.  A URL is [Scheme, Host, Path]; url.ParseRequestURI is tabulated  *)
(* on the strings the documents of the model hold.                         *)
(***************************************************************************)
URL(scheme, host, path) == [Scheme |-> scheme, Host |-> host, Path |-> path]

ParseError == [ok |-> FALSE]

Parsed(u) == [ok |-> TRUE, url |-> u]

\* url.ParseRequestURI: an absolute URI (its scheme in lower case) or an
\* absolute path; anything else, the empty string included, is an error.
ParseRequestURI(raw) ==
    CASE raw = "https://public.example.com/" ->
            Parsed(URL("https", "public.example.com", "/"))
      [] raw \in {"HTTPS://admin.example.com/", "https://admin.example.com/"} ->
            Parsed(URL("https", "admin.example.com", "/"))
      [] raw = "file:///etc/config/identity.schema.json" ->
            Parsed(URL("file", "", "/etc/config/identity.schema.json"))
      [] raw = "/self" -> Parsed(URL("", "", "/self"))
      [] raw = "https://app.example.com/" ->
            Parsed(URL("https", "app.example.com", "/"))
      [] raw = "https://app.example.com/after-flow" ->
            Parsed(URL("https", "app.example.com", "/after-flow"))
      [] raw = "https://app.example.com/after-strategy" ->
            Parsed(URL("https", "app.example.com", "/after-strategy"))
      [] OTHER -> ParseError

\* (*url.URL).String for a URL without user, opaque part, query and fragment.
URLString(u) ==
    (IF u.Scheme # "" THEN u.Scheme \o ":" ELSE "")
    \o (IF (u.Scheme # "" \/ u.Host # "") /\ (u.Host # "" \/ u.Path # "")
        THEN "//" ELSE "")
    \o u.Host \o u.Path

(***************************************************************************)
(* SelfServiceStrategy, lines 410-444.                                     *)
(***************************************************************************)
StrategyConfigKey(strategy) ==
    ViperKeySelfServiceStrategyConfig \o <<strategy, "config">>

StrategyEnabledKey(strategy) ==
    ViperKeySelfServiceStrategyConfig \o <<strategy, "enabled">>

\* lines 428-437: the strategies enabled when the enabled key does not exist
ForcedNone == {}

ForcedStrategies == {"password", "profile", "link"}

\* lines 411-418, 421-424 and 428-441, from what the three reads returned
StrategyResult(strategy, c, enabled, exists) ==
    LET config == IF Len(c) > 0 THEN c ELSE "{}"
    IN  [Enabled |-> IF ~exists /\ strategy \in ForcedStrategies
                     THEN TRUE ELSE enabled,
         Config |-> IF Len(config) = 0 THEN "{}" ELSE config]

\* SelfServiceStrategy on one generation d
SelfServiceStrategy(d, strategy) ==
    StrategyResult(strategy, Raw(d, StrategyConfigKey(strategy)),
                   Bool(d, StrategyEnabledKey(strategy)),
                   Exists(d, StrategyEnabledKey(strategy)))

\* lines 412-418: Marshal and the lookup of the config fragment (Marshal of
\* a document the source has loaded answers no error)
SelfServiceStrategyMarshal(c, strategy) ==
    /\ CanStart(c)
    /\ Begin(c)
    /\ pc' = [pc EXCEPT ![c] = "StrategyBool"]
    /\ local' = [local EXCEPT ![c] =
                    [op |-> "SelfServiceStrategy", strategy |-> strategy,
                     config |-> Raw(doc, StrategyConfigKey(strategy))]]
    /\ seen' = [seen EXCEPT ![c] = {doc}]
    /\ UNCHANGED <<doc, boot, forced, env, ret, writes, uuids, reloads,
                   lastReload, fatal>>

\* line 422: p.p.Bool(enabledKey)
SelfServiceStrategyBool(c) ==
    /\ ~fatal
    /\ pc[c] = "StrategyBool"
    /\ pc' = [pc EXCEPT ![c] = "StrategyExists"]
    /\ local' = [local EXCEPT ![c] =
                    @ @@ [enabled |->
                            Bool(doc, StrategyEnabledKey(@.strategy))]]
    /\ UNCHANGED <<doc, boot, forced, env, ret, calls, seen, writes,
                   uuids, reloads, lastReload, fatal>>

\* lines 428-443: p.p.Exists(enabledKey), the forced default and the return
SelfServiceStrategyExists(c) ==
    /\ ~fatal
    /\ pc[c] = "StrategyExists"
    /\ calls' = calls
    /\ Return(c, [op |-> "SelfServiceStrategy",
                  strategy |-> local[c].strategy,
                  val |-> StrategyResult(local[c].strategy, local[c].config,
                             local[c].enabled,
                             Exists(doc, StrategyEnabledKey(local[c].strategy)))])
    /\ seen' = [seen EXCEPT ![c] = {}]
    /\ UNCHANGED <<doc, boot, forced, env, writes, uuids, reloads,
                   lastReload, fatal>>

(***************************************************************************)
(* Base URLs, lines 480-526.                                               *)
(***************************************************************************)
\* os.Hostname(), lines 486-490
HostnameOr(fallback) == IF hostname.ok THEN hostname.name ELSE fallback

\* lines 484-491: the host of the guess
GuessHost(host) ==
    IF host = "0.0.0.0" \/ Len(host) = 0 THEN HostnameOr("127.0.0.1") ELSE host

\* lines 493-498
GuessSchemeAlwaysHTTPS(dev) == "https"

GuessScheme(dev) == IF dev THEN "http" ELSE "https"

Guess(port, host, dev) ==
    URL(GuessScheme(dev), GuessHost(host) \o ":" \o ToString(port), "/")

\* guessBaseURL on one generation d
guessBaseURL(d, keyHost, keyPort, defaultPort) ==
    Guess(IntF(d, keyPort, defaultPort), String(d, keyHost), Bool(d, KeyDev))

\* lines 502-517: the tier the configured value t selects
BaseURLTierIgnoresValue(t) == "guess"

BaseURLTier(t) ==
    CASE t.kind \in {"url.URL", "*url.URL"} -> "structured"
      [] t.kind = "string" ->
            IF ParseRequestURI(t.str).ok THEN "parsed" ELSE "guess"
      [] OTHER -> "guess"

\* baseURL on one generation d
baseURL(d, keyURL, keyHost, keyPort, defaultPort) ==
    LET t == Get(d, keyURL)
    IN  CASE BaseURLTier(t) = "structured" -> t.url
          [] BaseURLTier(t) = "parsed" -> ParseRequestURI(t.str).url
          [] OTHER -> guessBaseURL(d, keyHost, keyPort, defaultPort)

\* lines 520-526: the keys and the default port of an interface
PublicPortDefault == 4433
AdminPortDefault == 4434

BaseURLKeys(iface) ==
    IF iface = "public"
    THEN [url |-> ViperKeyPublicBaseURL, host |-> ViperKeyPublicHost,
          port |-> ViperKeyPublicPort, defaultPort |-> PublicPortDefault]
    ELSE [url |-> ViperKeyAdminBaseURL, host |-> ViperKeyAdminHost,
          port |-> ViperKeyAdminPort, defaultPort |-> AdminPortDefault]

SelfURLOp(iface) == IF iface = "public" THEN "SelfPublicURL" ELSE "SelfAdminURL"

\* SelfPublicURL and SelfAdminURL on one generation d
SelfURL(d, iface) ==
    LET k == BaseURLKeys(iface)
    IN  baseURL(d, k.url, k.host, k.port, k.defaultPort)

\* SelfPublicURL / SelfAdminURL, lines 502-517: p.p.Get(keyURL) and the
\* tiers that return without guessing
SelfURLGet(c, iface) ==
    /\ CanStart(c)
    /\ Begin(c)
    /\ LET k == BaseURLKeys(iface)
           t == Get(doc, k.url)
       IN  IF BaseURLTier(t) = "guess"
           THEN /\ pc' = [pc EXCEPT ![c] = "GuessPort"]
                /\ local' = [local EXCEPT ![c] =
                                [op |-> SelfURLOp(iface), iface |-> iface]]
                /\ seen' = [seen EXCEPT ![c] = {doc}]
                /\ ret' = ret
           ELSE /\ Return(c, [op |-> SelfURLOp(iface), iface |-> iface,
                              tier |-> BaseURLTier(t),
                              val |-> baseURL(doc, k.url, k.host, k.port,
                                              k.defaultPort)])
                /\ seen' = seen
    /\ UNCHANGED <<doc, boot, forced, env, writes, uuids, reloads,
                   lastReload, fatal>>

\* guessBaseURL, line 481: p.p.IntF(keyPort, defaultPort)
GuessBaseURLPort(c) ==
    /\ ~fatal
    /\ pc[c] = "GuessPort"
    /\ pc' = [pc EXCEPT ![c] = "GuessHost"]
    /\ LET k == BaseURLKeys(local[c].iface)
       IN  local' = [local EXCEPT ![c] =
                        @ @@ [port |-> IntF(doc, k.port, k.defaultPort)]]
    /\ UNCHANGED <<doc, boot, forced, env, ret, calls, seen, writes,
                   uuids, reloads, lastReload, fatal>>

\* guessBaseURL, line 483: p.p.String(keyHost)
GuessBaseURLHost(c) ==
    /\ ~fatal
    /\ pc[c] = "GuessHost"
    /\ pc' = [pc EXCEPT ![c] = "GuessDev"]
    /\ LET k == BaseURLKeys(local[c].iface)
       IN  local' = [local EXCEPT ![c] = @ @@ [host |-> String(doc, k.host)]]
    /\ UNCHANGED <<doc, boot, forced, env, ret, calls, seen, writes,
                   uuids, reloads, lastReload, fatal>>

\* guessBaseURL, lines 493-498: IsInsecureDevMode and the return
GuessBaseURLDev(c) ==
    /\ ~fatal
    /\ pc[c] = "GuessDev"
    /\ calls' = calls
    /\ Return(c, [op |-> local[c].op, iface |-> local[c].iface,
                  tier |-> "guess",
                  val |-> Guess(local[c].port, local[c].host,
                                Bool(doc, KeyDev))])
    /\ seen' = [seen EXCEPT ![c] = {}]
    /\ UNCHANGED <<doc, boot, forced, env, writes, uuids, reloads,
                   lastReload, fatal>>

(***************************************************************************)
(* Listen addresses, lines 274-286 and 322-328.                            *)
(***************************************************************************)
ListenFatal == [fatal |-> TRUE]

ListenFallbackAlwaysPublic(key) == PublicPortDefault

\* fb, lines 275-278
ListenFallback(key) ==
    IF key = "admin" THEN AdminPortDefault ELSE PublicPortDefault

\* listenOn on one generation d
listenOn(d, key) ==
    LET port == IntF(d, <<"serve", key, "port">>, ListenFallback(key))
    IN  IF port < 1
        THEN ListenFatal
        ELSE [fatal |-> FALSE,
              addr |-> String(d, <<"serve", key, "host">>) \o ":"
                         \o ToString(port)]

ListenOnOp(key) == IF key = "admin" THEN "AdminListenOn" ELSE "PublicListenOn"

\* AdminListenOn and PublicListenOn
ListenOn(c, key) ==
    /\ CanStart(c)
    /\ Begin(c)
    /\ IF listenOn(doc, key).fatal
       THEN /\ fatal' = TRUE
            /\ UNCHANGED <<pc, local, ret>>
       ELSE /\ fatal' = fatal
            /\ Return(c, [op |-> ListenOnOp(key), val |-> listenOn(doc, key).addr])
    /\ UNCHANGED <<doc, boot, forced, env, seen, writes, uuids, reloads,
                   lastReload>>

(***************************************************************************)
(* Identity schemas, lines 288-320 and 604-611.                            *)
(***************************************************************************)
\* parseURIOrFail: the parsed URL, or the end of the process
parseURIOrFail(d, key) == ParseRequestURI(String(d, key))

Schema(id, url) == [ID |-> id, URL |-> url]

\* line 319
SchemasAppend(ss, ds) == Append(ss, ds)

\* IdentityTraitsSchemas on one generation d, reached only when
\* parseURIOrFail returns
IdentityTraitsSchemas(d) ==
    LET ds == Schema(DefaultIdentityTraitsSchemaID,
                     URLString(parseURIOrFail(d, ViperKeyDefaultIdentitySchemaURL).url))
        config == Raw(d, ViperKeyIdentitySchemas)
    IN  IF ~Exists(d, ViperKeyIdentitySchemas) THEN <<ds>>
        ELSE IF Len(config) = 0 THEN <<ds>>
        ELSE SchemasAppend(d[ViperKeyIdentitySchemas].list, ds)

\* IdentityTraitsSchemas: Fatalf ends the process on a default schema URL
\* that does not parse
IdentityTraitsSchemasCall(c) ==
    /\ CanStart(c)
    /\ Begin(c)
    /\ IF ~parseURIOrFail(doc, ViperKeyDefaultIdentitySchemaURL).ok
       THEN /\ fatal' = TRUE
            /\ UNCHANGED <<pc, local, ret>>
       ELSE /\ fatal' = fatal
            /\ Return(c, [op |-> "IdentityTraitsSchemas",
                          val |-> IdentityTraitsSchemas(doc)])
    /\ UNCHANGED <<doc, boot, forced, env, seen, writes, uuids, reloads,
                   lastReload>>

(***************************************************************************)
(* Hooks, lines 116-119, 169-171, 361-408.  A configured hook is a JSON    *)
(* object: its member "hook", its member "config" as JSON text (empty for  *)
(* an omitted member), and whether it has a member SelfServiceHook does    *)
(* not declare.                                                            *)
(***************************************************************************)
HookEntry(name, config, extra) ==
    [hook |-> name, config |-> config, extra |-> extra]

\* SelfServiceHook
SelfServiceHook(name, config) == [Name |-> name, Config |-> config]

\* jsonx.NewStrictDecoder(...).Decode(&hooks): an undeclared member or a value
\* that is no array is an error.
DecodeHooks(v) ==
    IF v.kind = "list" /\ \A i \in 1..Len(v.list) : ~v.list[i].extra
    THEN [ok |-> TRUE,
          hooks |-> [i \in 1..Len(v.list) |->
                       SelfServiceHook(v.list[i].hook, v.list[i].config)]]
    ELSE [ok |-> FALSE]

HookConfigKept(config) == config

\* lines 389-393: an empty Config becomes the JSON object {}
HookConfig(config) == IF Len(config) = 0 THEN "{}" ELSE config

HooksFatal == [fatal |-> TRUE]

HooksOf(hooks) == [fatal |-> FALSE, hooks |-> hooks]

\* selfServiceHooks on one generation d
selfServiceHooks(d, key) ==
    IF ~Exists(d, key) THEN HooksOf(<<>>)
    ELSE IF Len(Raw(d, key)) = 0 THEN HooksOf(<<>>)
    ELSE IF ~DecodeHooks(d[key]).ok THEN HooksFatal
    ELSE LET hooks == DecodeHooks(d[key]).hooks
         IN  HooksOf([k \in 1..Len(hooks) |->
                        SelfServiceHook(hooks[k].Name, HookConfig(hooks[k].Config))])

BeforeHookOps ==
    {"SelfServiceFlowLoginBeforeHooks", "SelfServiceFlowRegistrationBeforeHooks"}

AfterHookOps ==
    {"SelfServiceFlowLoginAfterHooks", "SelfServiceFlowSettingsAfterHooks",
     "SelfServiceFlowRegistrationAfterHooks"}

\* The key each hook accessor hands to selfServiceHooks.
HookKey(op, strategy) ==
    CASE op = "SelfServiceFlowLoginBeforeHooks" ->
            ViperKeySelfServiceLoginBeforeHooks
      [] op = "SelfServiceFlowRegistrationBeforeHooks" ->
            ViperKeySelfServiceRegistrationBeforeHooks
      [] op = "SelfServiceFlowLoginAfterHooks" ->
            HookStrategyKey(ViperKeySelfServiceLoginAfter, strategy)
      [] op = "SelfServiceFlowSettingsAfterHooks" ->
            HookStrategyKey(ViperKeySelfServiceSettingsAfter, strategy)
      [] op = "SelfServiceFlowRegistrationAfterHooks" ->
            HookStrategyKey(ViperKeySelfServiceRegistrationAfter, strategy)

\* One of the five hook accessors; a before accessor takes no strategy.
SelfServiceHooksCall(c, op, strategy) ==
    /\ CanStart(c)
    /\ Begin(c)
    /\ LET key == HookKey(op, strategy)
           r == selfServiceHooks(doc, key)
       IN  IF r.fatal
           THEN /\ fatal' = TRUE
                /\ local' = [local EXCEPT ![c] = [op |-> op, key |-> key]]
                /\ UNCHANGED <<pc, ret>>
           ELSE /\ fatal' = fatal
                /\ Return(c, [op |-> op, strategy |-> strategy, key |-> key,
                              val |-> r.hooks])
    /\ UNCHANGED <<doc, boot, forced, env, seen, writes, uuids, reloads,
                   lastReload>>

(***************************************************************************)
(* The database DSN, lines 330-343.                                        *)
(***************************************************************************)
DSNFatal == [fatal |-> TRUE]

DSNOf(dsn) == [fatal |-> FALSE, dsn |-> dsn]

DSNEmptyReturned(d) == DSNOf(String(d, ViperKeyDSN))

\* DSN on one generation d
DSN(d) ==
    LET dsn == String(d, ViperKeyDSN)
    IN  IF dsn = "memory" THEN DSNOf(DefaultSQLiteMemoryDSN)
        ELSE IF Len(dsn) > 0 THEN DSNOf(dsn)
        ELSE DSNFatal

DSNCall(c) ==
    /\ CanStart(c)
    /\ Begin(c)
    /\ IF DSN(doc).fatal
       THEN /\ fatal' = TRUE
            /\ local' = [local EXCEPT ![c] = [op |-> "DSN"]]
            /\ UNCHANGED <<pc, ret>>
       ELSE /\ fatal' = fatal
            /\ Return(c, [op |-> "DSN", val |-> DSN(doc).dsn])
    /\ UNCHANGED <<doc, boot, forced, env, seen, writes, uuids, reloads,
                   lastReload>>

(***************************************************************************)
(* The same-site mode of the session cookie, lines 645-655.                *)
(***************************************************************************)
SessionSameSiteFallbackEmpty == ""

\* the fallback handed to StringF at line 646
SessionSameSiteFallback == "Lax"

\* SessionSameSiteMode on one generation d; the modes are named as net/http
\* names them.
SessionSameSiteMode(d) ==
    LET v == StringF(d, ViperKeySessionSameSite, SessionSameSiteFallback)
    IN  CASE v = "Lax" -> "SameSiteLaxMode"
          [] v = "Strict" -> "SameSiteStrictMode"
          [] v = "None" -> "SameSiteNoneMode"
          [] OTHER -> "SameSiteDefaultMode"

SessionSameSiteModeCall(c) ==
    /\ CanStart(c)
    /\ Begin(c)
    /\ fatal' = fatal
    /\ Return(c, [op |-> "SessionSameSiteMode", val |-> SessionSameSiteMode(doc)])
    /\ UNCHANGED <<doc, boot, forced, env, seen, writes, uuids, reloads,
                   lastReload>>

(***************************************************************************)
(* Return-to URLs, lines 476-478, 604-611 and 657-681.                     *)
(***************************************************************************)
\* RequestURIF of the source: a structured URL, a string that parses as a
\* request URI, or the fallback.
RequestURIF(d, key, fallback) ==
    CASE d[key].kind \in {"url.URL", "*url.URL"} -> d[key].url
      [] d[key].kind = "string" /\ ParseRequestURI(d[key].str).ok ->
            ParseRequestURI(d[key].str).url
      [] OTHER -> fallback

\* SelfServiceBrowserDefaultReturnTo: the parsed URL, or the end of the process
SelfServiceBrowserDefaultReturnTo(d) ==
    parseURIOrFail(d, ViperKeySelfServiceBrowserDefaultReturnTo)

ReturnToFatal == [fatal |-> TRUE]

ReturnToOf(u) == [fatal |-> FALSE, url |-> u]

\* selfServiceReturnTo on one generation d.  Go evaluates the arguments of a
\* call before the call: the global default is parsed first, whatever the
\* overrides hold, and a failure there ends the process.
selfServiceReturnTo(d, key, strategy) ==
    IF ~SelfServiceBrowserDefaultReturnTo(d).ok THEN ReturnToFatal
    ELSE ReturnToOf(
            RequestURIF(d, key \o <<strategy, DefaultBrowserReturnURL>>,
               RequestURIF(d, key \o <<DefaultBrowserReturnURL>>,
                  SelfServiceBrowserDefaultReturnTo(d).url)))

ReturnToOps ==
    {"SelfServiceFlowLoginReturnTo", "SelfServiceFlowRegistrationReturnTo"}

\* The key each return-to accessor hands to selfServiceReturnTo.
ReturnToKey(op) ==
    IF op = "SelfServiceFlowLoginReturnTo" THEN ViperKeySelfServiceLoginAfter
    ELSE ViperKeySelfServiceRegistrationAfter

\* SelfServiceFlowLoginReturnTo and SelfServiceFlowRegistrationReturnTo
SelfServiceReturnToCall(c, op, strategy) ==
    /\ CanStart(c)
    /\ Begin(c)
    /\ LET r == selfServiceReturnTo(doc, ReturnToKey(op), strategy)
       IN  IF r.fatal
           THEN /\ fatal' = TRUE
                /\ local' = [local EXCEPT ![c] = [op |-> op, strategy |-> strategy]]
                /\ UNCHANGED <<pc, ret>>
           ELSE /\ fatal' = fatal
                /\ Return(c, [op |-> op, strategy |-> strategy, val |-> r.url])
    /\ UNCHANGED <<doc, boot, forced, env, seen, writes, uuids, reloads,
                   lastReload>>

(***************************************************************************)
(* Set, lines 241-243.                                                     *)
(***************************************************************************)
\* Set: the source accepts the value and serves it, or answers an error and
\* keeps the document.
ConfigSet(c, key, value) ==
    /\ CanStart(c)
    /\ Begin(c)
    /\ fatal' = fatal
    /\ \E accepted \in BOOLEAN :
          /\ IF accepted
             THEN /\ doc' = SetDoc(doc, key, value)
                  /\ forced' = SetDoc(forced, key, value)
                  /\ writes' = Append(writes, <<key, value>>)
             ELSE UNCHANGED <<doc, forced, writes>>
          /\ Return(c, [op |-> "Set", key |-> key, err |-> ~accepted])
    /\ UNCHANGED <<boot, env, seen, uuids, reloads, lastReload>>

(***************************************************************************)
(* Argon2, lines 94-115, 167 and 259-272.                                  *)
(***************************************************************************)
\* The conversions uint8(...) and uint32(...) of an int.
Uint8(n) == n % 256

Uint32(n) == IF n >= 0 THEN n ELSE n + 2^32

Argon2DefaultMemory == 128 * 2^20
Argon2DefaultIterations == 1
Argon2DefaultKeyLength == 32
Argon2DefaultSaltLengthOfKey == Argon2DefaultKeyLength
Argon2DefaultSaltLength == 16
Argon2DefaultDuration == 500 * 10^6
Argon2DefaultDeviation == 500 * 10^6
Argon2DefaultDedicatedMemory == 2^30

\* var Argon2DefaultParallelism = uint8(runtime.NumCPU() * 2), evaluated when
\* the package is initialised.
InitArgon2DefaultParallelism(cpus) == Uint8(cpus * 2)

\* HasherArgon2 on one generation d
HasherArgon2(d) ==
    [Memory |-> ByteSizeF(d, ViperKeyHasherArgon2ConfigMemory, Argon2DefaultMemory),
     Iterations |-> Uint32(IntF(d, ViperKeyHasherArgon2ConfigIterations,
                                Argon2DefaultIterations)),
     Parallelism |-> Uint8(IntF(d, ViperKeyHasherArgon2ConfigParallelism,
                                Argon2DefaultParallelism)),
     SaltLength |-> Uint32(IntF(d, ViperKeyHasherArgon2ConfigSaltLength,
                                Argon2DefaultSaltLength)),
     KeyLength |-> Uint32(IntF(d, ViperKeyHasherArgon2ConfigKeyLength,
                               Argon2DefaultKeyLength)),
     ExpectedDuration |-> DurationF(d, ViperKeyHasherArgon2ConfigExpectedDuration,
                                    Argon2DefaultDuration),
     ExpectedDeviation |-> DurationF(d, ViperKeyHasherArgon2ConfigExpectedDeviation,
                                     Argon2DefaultDeviation),
     DedicatedMemory |-> ByteSizeF(d, ViperKeyHasherArgon2ConfigDedicatedMemory,
                                   Argon2DefaultDedicatedMemory)]

HasherArgon2Call(c) ==
    /\ CanStart(c)
    /\ Begin(c)
    /\ fatal' = fatal
    /\ Return(c, [op |-> "HasherArgon2", val |-> HasherArgon2(doc)])
    /\ UNCHANGED <<doc, boot, forced, env, seen, writes, uuids, reloads,
                   lastReload>>

(***************************************************************************)
(* The watcher: a changed file is loaded as a new generation, unless it    *)
(* changes a key of an immutable subtree.                                  *)
(***************************************************************************)
Reload(file) ==
    /\ ~fatal
    /\ reloads < MaxReloads
    /\ reloads' = reloads + 1
    /\ LET new == Overlay(file, forced)
       IN  IF ImmutableChanged(doc, new)
           THEN /\ lastReload' = "rejected"
                /\ UNCHANGED <<doc, seen>>
           ELSE /\ lastReload' = "applied"
                /\ doc' = new
                /\ seen' = [d \in Callers |->
                              IF seen[d] # {} THEN seen[d] \cup {new} ELSE {}]
    /\ UNCHANGED <<boot, forced, env, pc, local, ret, calls, writes,
                   uuids, fatal>>

(***************************************************************************)
(* Concurrent provisioning: callers race on the default secret while the   *)
(* watcher reloads the secrets of the file.                                *)
(***************************************************************************)
SecretLists == {<<>>, <<"configured-secret-a">>,
                <<"configured-secret-a", "configured-secret-b">>}

SecretsOf(l) == IF l = <<>> THEN Absent ELSE ListV(l)

SecretDocs ==
    {DocOf((ViperKeySecretsDefault :> SecretsOf(d))
           @@ (ViperKeySecretsCookie :> SecretsOf(k))) :
        d \in SecretLists, k \in SecretLists}

HostnameOK == [ok |-> TRUE, name |-> "kratos-host"]

HostnameError == [ok |-> FALSE]

\* The state after New on a host with one of the processor counts cpus.
InitOn(docs, hostnames, cpus) ==
    /\ doc \in docs
    /\ boot = doc
    /\ forced = EmptyDoc
    /\ hostname \in hostnames
    /\ numCPU \in cpus
    /\ Argon2DefaultParallelism = InitArgon2DefaultParallelism(numCPU)
    /\ pc = [c \in Callers |-> "idle"]
    /\ local = [c \in Callers |-> Idle]
    /\ ret = [c \in Callers |-> NoRet]
    /\ calls = 0
    /\ seen = [c \in Callers |-> {}]
    /\ writes = <<>>
    /\ uuids = 0
    /\ reloads = 0
    /\ lastReload = "none"
    /\ fatal = FALSE

InitWith(docs, hostnames) == InitOn(docs, hostnames, {4})

Init == InitWith(SecretDocs, {HostnameOK})

SecretsStep(c) ==
    \/ SecretsDefaultRead(c)
    \/ SecretsDefaultMustSet(c)
    \/ SecretsDefaultMustSetFatal(c)
    \/ SecretsSessionRead(c)

Next ==
    \/ \E c \in Callers : SecretsStep(c)
    \/ \E file \in SecretDocs : Reload(file)

Spec == Init /\ [][Next]_vars

\* One call at a time on a document nothing else changes.
OthersIdle(c) == \A d \in Callers \ {c} : pc[d] = "idle"

NextSeq ==
    \E c \in Callers :
        \/ OthersIdle(c) /\ SecretsDefaultRead(c)
        \/ OthersIdle(c) /\ SecretsDefaultMustSet(c)
        \/ OthersIdle(c) /\ SecretsDefaultMustSetFatal(c)
        \/ OthersIdle(c) /\ SecretsSessionRead(c)

SpecSeq == Init /\ [][NextSeq]_vars

(***************************************************************************)
(* Readers under reload: callers read strategies, base URLs and listen     *)
(* addresses while the watcher loads changed files.                        *)
(***************************************************************************)
Choice(key, values) == {(key :> v) : v \in values}

\* The documents that hold, for every key of a, one of the values a offers.
Merge(a, b) == {x @@ y : x \in a, y \in b}

ReloadDocs ==
    {DocOf(o) :
        o \in Merge(Choice(StrategyEnabledKey("password"),
                           {Absent, BoolV(TRUE), BoolV(FALSE)}),
              Merge(Choice(StrategyConfigKey("password"),
                           {Absent, JsonV("{\"min_length\":8}")}),
              Merge(Choice(KeyDev, {Absent, BoolV(TRUE)}),
                    Choice(ViperKeyPublicPort, {Absent, IntV(4455)}))))}

InitReload == InitWith(ReloadDocs, {HostnameOK})

\* One reader suffices against the watcher.
Readers == {"a"}

NextReload ==
    \/ \E c \in Readers : SelfServiceStrategyMarshal(c, "password")
    \/ \E c \in Readers : SelfServiceStrategyBool(c)
    \/ \E c \in Readers : SelfServiceStrategyExists(c)
    \/ \E c \in Readers : SelfURLGet(c, "public")
    \/ \E c \in Readers : GuessBaseURLPort(c)
    \/ \E c \in Readers : GuessBaseURLHost(c)
    \/ \E c \in Readers : GuessBaseURLDev(c)
    \/ \E c \in Readers : ListenOn(c, "public")
    \/ \E file \in ReloadDocs : Reload(file)

SpecReload == InitReload /\ [][NextReload]_vars

(***************************************************************************)
(* The accessors as functions of one document: a single caller on a        *)
(* document nothing changes.                                               *)
(***************************************************************************)
EnabledChoices(strategy) ==
    Choice(StrategyEnabledKey(strategy), {Absent, BoolV(TRUE), BoolV(FALSE)})

StrategyDocs ==
    {DocOf(o) :
        o \in Merge(EnabledChoices("password"),
              Merge(EnabledChoices("profile"),
              Merge(EnabledChoices("link"),
              Merge(EnabledChoices("oidc"),
                    Choice(StrategyConfigKey("password"),
                           {Absent, JsonV("{\"min_length\":8}")})))))}

InitStrategy == InitWith(StrategyDocs, {HostnameOK})

NextStrategy ==
    \/ \E c \in Readers, s \in StrategyNames : SelfServiceStrategyMarshal(c, s)
    \/ \E c \in Readers : SelfServiceStrategyBool(c)
    \/ \E c \in Readers : SelfServiceStrategyExists(c)

SpecStrategy == InitStrategy /\ [][NextStrategy]_vars

PublicURL == URL("https", "id.example.com", "/")

URLDocs ==
    {DocOf(o) :
        o \in Merge(Choice(ViperKeyPublicBaseURL,
                           {Absent, URLV(PublicURL), URLPtrV(PublicURL),
                            StrV("https://public.example.com/"), StrV("/self"),
                            StrV("not-a-url"), StrV("")}),
              Merge(Choice(ViperKeyAdminBaseURL,
                           {Absent, StrV("HTTPS://admin.example.com/"),
                            StrV("not-a-url")}),
              Merge(Choice(ViperKeyPublicPort, {Absent, IntV(4455)}),
              Merge(Choice(ViperKeyAdminPort, {Absent, IntV(4456)}),
              Merge(Choice(ViperKeyPublicHost,
                           {Absent, StrV("0.0.0.0"), StrV("id.internal")}),
              Merge(Choice(ViperKeyAdminHost, {Absent, StrV("")}),
                    Choice(KeyDev, {Absent, BoolV(TRUE), BoolV(FALSE)})))))))}

InitURL == InitWith(URLDocs, {HostnameOK, HostnameError})

NextURL ==
    \/ \E c \in Readers, iface \in {"public", "admin"} : SelfURLGet(c, iface)
    \/ \E c \in Readers : GuessBaseURLPort(c)
    \/ \E c \in Readers : GuessBaseURLHost(c)
    \/ \E c \in Readers : GuessBaseURLDev(c)

SpecURL == InitURL /\ [][NextURL]_vars

SchemaIDs == {DefaultIdentityTraitsSchemaID, "customer"}

SchemaURLOf(id) == "https://schemas.example.com/" \o id \o ".schema.json"

RECURSIVE SeqsUpTo(_, _)
\* The sequences over S of length at most n.
SeqsUpTo(S, n) ==
    IF n = 0 THEN {<<>>}
    ELSE LET shorter == SeqsUpTo(S, n - 1)
         IN  shorter \cup {Append(q, x) : q \in shorter, x \in S}

SchemaLists == SeqsUpTo({Schema(id, SchemaURLOf(id)) : id \in SchemaIDs}, MaxSchemas)

SchemaDocs ==
    {DocOf(o) :
        o \in Merge(Choice(ViperKeyIdentitySchemas,
                           {Absent} \cup {ListV(l) : l \in SchemaLists}),
                    Choice(ViperKeyDefaultIdentitySchemaURL,
                           {Absent, StrV("not-a-url"),
                            StrV("file:///etc/config/identity.schema.json"),
                            StrV("HTTPS://admin.example.com/")}))}

InitSchemas == InitWith(SchemaDocs, {HostnameOK})

NextSchemas == \E c \in Callers : IdentityTraitsSchemasCall(c)

SpecSchemas == InitSchemas /\ [][NextSchemas]_vars

ListenDocs ==
    {DocOf(o) :
        o \in Merge(Choice(ViperKeyPublicPort, {Absent, IntV(4455), IntV(0)}),
              Merge(Choice(ViperKeyAdminPort, {Absent, IntV(4456)}),
              Merge(Choice(ViperKeyPublicHost,
                           {Absent, StrV(""), StrV("0.0.0.0"), StrV("id.internal")}),
              Merge(Choice(ViperKeyAdminHost, {Absent, StrV("admin.internal")}),
                    Choice(KeyDev, {Absent, BoolV(TRUE)})))))}

InitListen == InitWith(ListenDocs, {HostnameOK, HostnameError})

NextListen == \E c \in Readers, key \in {"public", "admin"} : ListenOn(c, key)

SpecListen == InitListen /\ [][NextListen]_vars

HookEntries ==
    {HookEntry("revoke_active_sessions", "", FALSE),
     HookEntry("web_hook", "{\"url\":\"https://hooks.example.com/\"}", FALSE),
     HookEntry("session", "", TRUE)}

HookLists == SeqsUpTo(HookEntries, MaxHooks)

\* The documents that configure the hooks of at most one key.
HookDocs ==
    {EmptyDoc} \cup {DocOf(k :> ListV(l)) : k \in HookKeys, l \in HookLists}

InitHooks == InitWith(HookDocs, {HostnameOK})

NextHooks ==
    \/ \E c \in Readers, op \in BeforeHookOps :
          SelfServiceHooksCall(c, op, "")
    \/ \E c \in Readers, op \in AfterHookOps, s \in HookStrategies :
          SelfServiceHooksCall(c, op, s)

SpecHooks == InitHooks /\ [][NextHooks]_vars

SettingsDocs ==
    {DocOf(o) :
        o \in Merge(Choice(ViperKeySessionSameSite,
                           {Absent, StrV("Lax"), StrV("Strict"), StrV("None"),
                            StrV("lax"), StrV("")}),
                    Choice(ViperKeyDSN,
                           {Absent, StrV(""), StrV("memory"), StrV("Memory"),
                            StrV("sqlite://:memory:?_fk=true"),
                            StrV("postgres://kratos@db.internal/kratos")}))}

InitSettings == InitWith(SettingsDocs, {HostnameOK})

NextSettings ==
    \/ \E c \in Readers : SessionSameSiteModeCall(c)
    \/ \E c \in Readers : DSNCall(c)

SpecSettings == InitSettings /\ [][NextSettings]_vars

ReturnToDocs ==
    {DocOf(o) :
        o \in Merge(Choice(ViperKeySelfServiceBrowserDefaultReturnTo,
                           {Absent, StrV("https://app.example.com/"),
                            StrV("not-a-url")}),
              Merge(Choice(ViperKeySelfServiceLoginAfter
                              \o <<DefaultBrowserReturnURL>>,
                           {Absent, StrV("https://app.example.com/after-flow"),
                            StrV("not-a-url")}),
              Merge(Choice(ViperKeySelfServiceLoginAfter
                              \o <<"password", DefaultBrowserReturnURL>>,
                           {Absent, StrV("https://app.example.com/after-strategy"),
                            StrV("not-a-url")}),
              Merge(Choice(ViperKeySelfServiceRegistrationAfter
                              \o <<DefaultBrowserReturnURL>>,
                           {Absent, StrV("/self")}),
                    Choice(ViperKeySelfServiceRegistrationAfter
                              \o <<"oidc", DefaultBrowserReturnURL>>,
                           {Absent, StrV("https://app.example.com/after-strategy")})))))}

InitReturnTo == InitWith(ReturnToDocs, {HostnameOK})

NextReturnTo ==
    \E c \in Readers, op \in ReturnToOps, s \in ReturnToStrategies :
        SelfServiceReturnToCall(c, op, s)

SpecReturnTo == InitReturnTo /\ [][NextReturnTo]_vars

\* The processor counts of the hosts of the model.
CPUCounts == {1, 4, 64, 127, 128, 192}

ParallelismDocs ==
    {DocOf(o) :
        o \in Merge(Choice(ViperKeyHasherArgon2ConfigParallelism, {Absent, IntV(8)}),
                    Choice(ViperKeyHasherArgon2ConfigIterations, {Absent, IntV(3)}))}

InitParallelism == InitOn(ParallelismDocs, {HostnameOK}, CPUCounts)

NextParallelism ==
    \/ \E c \in Readers : HasherArgon2Call(c)
    \/ \E c \in Readers :
          ConfigSet(c, ViperKeyHasherArgon2ConfigIterations, IntV(2))
    \/ \E file \in ParallelismDocs : Reload(file)

SpecParallelism == InitParallelism /\ [][NextParallelism]_vars

\* Every subset of the Argon2 keys configured, each with one value.
Argon2Docs ==
    {DocOf(o) :
        o \in Merge(Choice(ViperKeyHasherArgon2ConfigMemory, {Absent, StrV("256MB")}),
              Merge(Choice(ViperKeyHasherArgon2ConfigIterations, {Absent, IntV(3)}),
              Merge(Choice(ViperKeyHasherArgon2ConfigParallelism, {Absent, IntV(8)}),
              Merge(Choice(ViperKeyHasherArgon2ConfigSaltLength, {Absent, IntV(24)}),
              Merge(Choice(ViperKeyHasherArgon2ConfigKeyLength, {Absent, IntV(64)}),
              Merge(Choice(ViperKeyHasherArgon2ConfigExpectedDuration,
                           {Absent, StrV("1s")}),
              Merge(Choice(ViperKeyHasherArgon2ConfigExpectedDeviation,
                           {Absent, StrV("250ms")}),
                    Choice(ViperKeyHasherArgon2ConfigDedicatedMemory,
                           {Absent, StrV("512MB")}))))))))}

InitArgon2 == InitWith(Argon2Docs, {HostnameOK})

NextArgon2 == \E c \in Readers : HasherArgon2Call(c)

SpecArgon2 == InitArgon2 /\ [][NextArgon2]_vars

\* Documents on which every accessor of the model returns, with and without
\* configured secrets.
FrameDocs ==
    {DocOf(o @@ (ViperKeyDefaultIdentitySchemaURL :>
                    StrV("file:///etc/config/identity.schema.json"))
             @@ (ViperKeyDSN :> StrV("memory"))
             @@ (ViperKeySelfServiceBrowserDefaultReturnTo :>
                    StrV("https://app.example.com/"))
             @@ (ViperKeySelfServiceLoginBeforeHooks :>
                    ListV(<<HookEntry("revoke_active_sessions", "", FALSE)>>))) :
        o \in Merge(Choice(ViperKeySecretsDefault,
                           {Absent, ListV(<<"configured-secret-a">>)}),
                    Choice(ViperKeySecretsCookie,
                           {Absent, ListV(<<"configured-secret-b">>)}))}

InitFrame == InitWith(FrameDocs, {HostnameOK})

\* Two callers provision the secret while one of them also reads and sets.
NextFrame ==
    \/ \E c \in Callers : SecretsStep(c)
    \/ \E c \in Readers : ConfigSet(c, ViperKeySessionSameSite, StrV("Strict"))
    \/ \E c \in Readers : SelfServiceStrategyMarshal(c, "password")
    \/ \E c \in Readers : SelfServiceStrategyBool(c)
    \/ \E c \in Readers : SelfServiceStrategyExists(c)
    \/ \E c \in Readers : SelfURLGet(c, "public")
    \/ \E c \in Readers : GuessBaseURLPort(c)
    \/ \E c \in Readers : GuessBaseURLHost(c)
    \/ \E c \in Readers : GuessBaseURLDev(c)
    \/ \E c \in Readers : ListenOn(c, "public")
    \/ \E c \in Readers : IdentityTraitsSchemasCall(c)
    \/ \E c \in Readers : SelfServiceHooksCall(c, "SelfServiceFlowLoginBeforeHooks", "")
    \/ \E c \in Readers : SessionSameSiteModeCall(c)
    \/ \E c \in Readers :
          SelfServiceReturnToCall(c, "SelfServiceFlowLoginReturnTo", "password")
    \/ \E c \in Readers : DSNCall(c)
    \/ \E c \in Readers : HasherArgon2Call(c)

SpecFrame == InitFrame /\ [][NextFrame]_vars

DefaultUnset(d) == Len(Strings(d, ViperKeySecretsDefault)) = 0

CookieUnset(d) == Len(Strings(d, ViperKeySecretsCookie)) = 0

\* C1: on a store with an empty secrets.default, racing callers write at most
\* one generated secret, and every caller that found the list empty returns
\* that one secret.
C1_AtMostOneGeneratedSecret ==
    /\ Len(writes) <= 1
    /\ \A c, d \in Callers :
         (ret[c].op # "none" /\ ret[d].op # "none"
          /\ ret[c].set # <<>> /\ ret[d].set # <<>>) => ret[c].val = ret[d].val

\* C2: with calls made one after the other on a document without a default
\* secret, the store is written exactly once, by the first SecretsDefault, and
\* every SecretsDefault returns the secret written then, which the store holds.
C2_SequentialProvisionedOnce ==
    \A c \in Callers :
        (ret[c].op = "SecretsDefault" /\ DefaultUnset(boot)) =>
            /\ Len(writes) = 1
            /\ writes[1][1] = ViperKeySecretsDefault
            /\ ret[c].val = ToResult(writes[1][2])
            /\ Strings(doc, ViperKeySecretsDefault) = writes[1][2]

C2_TwoCallsInSequence ==
    /\ DefaultUnset(boot)
    /\ calls = 2
    /\ \A c \in Callers : pc[c] = "idle" /\ ret[c].op = "SecretsDefault"
    /\ \E c, d \in Callers : ret[c].set # <<>> /\ ret[d].set = <<>>

\* C3: whenever SecretsDefault returns (called directly or by SecretsSession),
\* the list it returns is not empty and the store then holds a list that is not
\* empty; a call that found the list unset has persisted one generated secret
\* as the sole element and returns it.
C3_DefaultNeverEmpty ==
    [][\A c \in Callers :
          (Returned(c) /\ ret'[c].op \in {"SecretsDefault", "SecretsSession"}
           /\ ret'[c].default) =>
              /\ Len(ret'[c].val) >= 1
              /\ ~DefaultUnset(doc')
              /\ ret'[c].set # <<>> =>
                    /\ Len(ret'[c].set[1]) = 1
                    /\ ret'[c].val = ToResult(ret'[c].set[1])
                    /\ doc'[ViperKeySecretsDefault] = ListV(ret'[c].set[1])
                    /\ writes'[Len(writes')] =
                           <<ViperKeySecretsDefault, ret'[c].set[1]>>]_vars

C3_ProvisionedUnderRace ==
    /\ Len(writes) = 2
    /\ reloads = 1
    /\ \E c \in Callers : ret[c].op = "SecretsSession" /\ ret[c].set # <<>>

\* C4: SecretsSession returns a configured secrets.cookie list as it is and
\* writes nothing; with the list absent it returns what SecretsDefault returns
\* and the store then holds, so the two accessors called one after the other
\* agree and at most one secret is ever generated.
C4_SessionFallsBackToDefault ==
    /\ Len(writes) <= 1
    /\ \A c \in Callers :
         ret[c].op = "SecretsSession" =>
            IF CookieUnset(doc)
            THEN /\ ret[c].default
                 /\ ret[c].val = ToResult(Strings(doc, ViperKeySecretsDefault))
                 /\ Len(ret[c].val) >= 1
                 /\ \A d \in Callers :
                      ret[d].op = "SecretsDefault" => ret[d].val = ret[c].val
            ELSE /\ ret[c].val = ToResult(Strings(doc, ViperKeySecretsCookie))
                 /\ ret[c].set = <<>>
                 /\ ~ret[c].default

C4_SessionThenDefault ==
    /\ \E c, d \in Callers :
         /\ ret[c].op = "SecretsSession" /\ ret[c].set # <<>>
         /\ ret[d].op = "SecretsDefault" /\ ret[d].n > ret[c].n
    /\ \A c \in Callers : pc[c] = "idle"

\* The generations served while the call of c ran.
GensOf(c) == IF seen[c] = {} THEN {doc} ELSE seen[c]

\* C5: an accessor that runs while the watcher reloads returns what it would
\* return on one complete generation served during the call.
C5_NoMixedGenerations ==
    [][\A c \in Callers :
          /\ (Returned(c) /\ ret'[c].op = "SelfServiceStrategy") =>
                \E g \in GensOf(c) :
                    ret'[c].val = SelfServiceStrategy(g, ret'[c].strategy)
          /\ (Returned(c) /\ ret'[c].op \in {"SelfPublicURL", "SelfAdminURL"}) =>
                \E g \in GensOf(c) : ret'[c].val = SelfURL(g, ret'[c].iface)]_vars

\* C6: the keys under serve, profiling and log keep the values of the
\* generation loaded at construction whatever files the watcher is offered,
\* and PublicListenOn and AdminListenOn answer as on that generation.
C6_ImmutablesKept ==
    /\ \A k \in Keys : k[1] \in {"serve", "profiling", "log"} => doc[k] = boot[k]
    /\ \A key \in {"public", "admin"} : listenOn(doc, key) = listenOn(boot, key)
    /\ \A c \in Callers :
         ret[c].op = "PublicListenOn" => ret[c].val = listenOn(boot, "public").addr

C6_ChangeRejected ==
    /\ lastReload = "rejected"
    /\ \E c \in Callers : ret[c].op = "PublicListenOn" /\ ret[c].val = ":4455"

\* C7: IdentityTraitsSchemas returns the configured schemas in their order
\* followed by the default schema, which carries the default schema URL and is
\* the only entry with the id "default".
C7_ExactlyOneDefaultLast ==
    \A c \in Callers :
        ret[c].op = "IdentityTraitsSchemas" =>
            LET v == ret[c].val
                configured == IF doc[ViperKeyIdentitySchemas].kind = "list"
                              THEN doc[ViperKeyIdentitySchemas].list ELSE <<>>
            IN  /\ Len(v) = Len(configured) + 1
                /\ SubSeq(v, 1, Len(v) - 1) = configured
                /\ v[Len(v)].ID = "default"
                /\ ParseRequestURI(v[Len(v)].URL) =
                      ParseRequestURI(doc[ViperKeyDefaultIdentitySchemaURL].str)
                /\ Cardinality({i \in 1..Len(v) : v[i].ID = "default"}) = 1

\* C8: SelfServiceStrategy(name).Enabled is the configured value when the
\* enabled key exists; when it does not, it is true for password, profile and
\* link and false for every other name.
C8_EnabledDefault ==
    \A c \in Callers :
        ret[c].op = "SelfServiceStrategy" =>
            LET name == ret[c].strategy
                v == doc[<<"selfservice", "methods", name, "enabled">>]
            IN  IF v.kind = "absent"
                THEN ret[c].val.Enabled = (name \in {"password", "profile", "link"})
                ELSE ret[c].val.Enabled = v.bool

C8_AbsentLinkEnabled ==
    /\ doc[StrategyEnabledKey("link")] = Absent
    /\ doc[StrategyEnabledKey("password")] = BoolV(FALSE)
    /\ ret["a"].op = "SelfServiceStrategy"
    /\ ret["a"].strategy = "link"
    /\ ret["a"].val.Enabled

\* The keys SelfPublicURL and SelfAdminURL read.
OwnURLKey(iface) ==
    IF iface = "public" THEN <<"serve", "public", "base_url">>
    ELSE <<"serve", "admin", "base_url">>

OwnHost(iface) == doc[<<"serve", iface, "host">>]

OwnPort(iface) == doc[<<"serve", iface, "port">>]

ExpectedPort(iface) ==
    IF OwnPort(iface).kind = "int" THEN OwnPort(iface).int
    ELSE IF iface = "public" THEN 4433 ELSE 4434

ExpectedHost(iface) ==
    IF OwnHost(iface).kind = "string" /\ OwnHost(iface).str \notin {"", "0.0.0.0"}
    THEN OwnHost(iface).str
    ELSE IF hostname.ok THEN hostname.name ELSE "127.0.0.1"

\* C9: SelfPublicURL and SelfAdminURL return a structured URL as it is, a
\* string that parses as its parsed URL, and for a string that does not parse
\* or an absent key the guess from the interface's own host and port keys; the
\* process never ends.
C9_ThreeTiers ==
    /\ ~fatal
    /\ \A c \in Callers :
         ret[c].op \in {"SelfPublicURL", "SelfAdminURL"} =>
            LET iface == IF ret[c].op = "SelfPublicURL" THEN "public" ELSE "admin"
                t == doc[OwnURLKey(iface)]
            IN  CASE t.kind \in {"url.URL", "*url.URL"} -> ret[c].val = t.url
                  [] t.kind = "string" /\ ParseRequestURI(t.str).ok ->
                        ret[c].val = ParseRequestURI(t.str).url
                  [] OTHER ->
                        /\ ret[c].tier = "guess"
                        /\ ret[c].val.Host =
                              ExpectedHost(iface) \o ":" \o ToString(ExpectedPort(iface))

C9_UnparsableStringGuessed ==
    /\ doc[ViperKeyAdminBaseURL] = StrV("not-a-url")
    /\ doc[ViperKeyAdminPort] = IntV(4456)
    /\ ret["a"].op = "SelfAdminURL"
    /\ ret["a"].tier = "guess"

\* C10: the guessed URL has the scheme http in insecure dev mode and https
\* otherwise, the path "/", the configured port or 4433 (public) or 4434
\* (admin), and the configured host or, for an empty host or 0.0.0.0, the
\* hostname of the process, or 127.0.0.1 when the lookup fails.
C10_GuessedURL ==
    \A c \in Callers :
        (ret[c].op \in {"SelfPublicURL", "SelfAdminURL"} /\ ret[c].tier = "guess") =>
            LET iface == IF ret[c].op = "SelfPublicURL" THEN "public" ELSE "admin"
            IN  ret[c].val =
                   [Scheme |-> IF doc[KeyDev] = BoolV(TRUE) THEN "http" ELSE "https",
                    Host |-> ExpectedHost(iface) \o ":" \o ToString(ExpectedPort(iface)),
                    Path |-> "/"]

C10_DevModeGuess ==
    /\ doc[KeyDev] = BoolV(TRUE)
    /\ doc[ViperKeyPublicHost] = Absent
    /\ doc[ViperKeyPublicPort] = Absent
    /\ ~hostname.ok
    /\ ret["a"].op = "SelfPublicURL"
    /\ ret["a"].val = URL("http", "127.0.0.1:4433", "/")

\* The interface an accessor of the listen address reads.
ListenIface(op) == IF op = "PublicListenOn" THEN "public" ELSE "admin"

\* C11 as the specification words it: PublicListenOn and AdminListenOn return
\* host:port with the port defaulting to 4433 (public) or 4434 (admin), and
\* for an empty or absent host the host part is the hostname of the process.
C11_HostnameListenAddress ==
    \A c \in Callers :
        (ret[c].op \in {"PublicListenOn", "AdminListenOn"} /\ hostname.ok) =>
            LET iface == ListenIface(ret[c].op)
                host == IF OwnHost(iface) \in {Absent, StrV("")}
                        THEN hostname.name ELSE OwnHost(iface).str
            IN  ret[c].val = host \o ":" \o ToString(ExpectedPort(iface))

\* C11: PublicListenOn and AdminListenOn return the configured host as it is
\* (empty when the key is absent or empty, whatever the hostname of the
\* process and the dev flag), a colon, and the configured port or 4433
\* (public) or 4434 (admin) when the port key is absent; the process ends
\* only on a configured port below 1.
C11_ListenAddress ==
    /\ \A c \in Callers :
         ret[c].op \in {"PublicListenOn", "AdminListenOn"} =>
            LET iface == ListenIface(ret[c].op)
                host == IF OwnHost(iface).kind = "string"
                        THEN OwnHost(iface).str ELSE ""
            IN  /\ ret[c].val = host \o ":" \o ToString(ExpectedPort(iface))
                /\ ExpectedPort(iface) >= 1
    /\ fatal => \E iface \in {"public", "admin"} : ExpectedPort(iface) < 1

C11_DevAbsentHost ==
    /\ doc[ViperKeyPublicPort] = IntV(4455)
    /\ doc[KeyDev] = BoolV(TRUE)
    /\ doc[ViperKeyPublicHost] = Absent
    /\ hostname.ok
    /\ ret["a"].op = "PublicListenOn"
    /\ ret["a"].val = ":4455"

\* The key a hook accessor reads, from the constants of lines 63-72.
HookKeyOf(op, strategy) ==
    CASE op = "SelfServiceFlowLoginBeforeHooks" ->
            <<"selfservice", "flows", "login", "before", "hooks">>
      [] op = "SelfServiceFlowRegistrationBeforeHooks" ->
            <<"selfservice", "flows", "registration", "before", "hooks">>
      [] op = "SelfServiceFlowLoginAfterHooks" ->
            <<"selfservice", "flows", "login", "after", strategy, "hooks">>
      [] op = "SelfServiceFlowSettingsAfterHooks" ->
            <<"selfservice", "flows", "settings", "after", strategy, "hooks">>
      [] op = "SelfServiceFlowRegistrationAfterHooks" ->
            <<"selfservice", "flows", "registration", "after", strategy, "hooks">>

ConfiguredHooks(key) == IF doc[key].kind = "list" THEN doc[key].list ELSE <<>>

\* C12: a hook accessor returns the empty list for an absent or empty hooks
\* key and never ends the process on one (only a hook with a member the
\* decoder does not know ends it); for a configured list it returns the
\* hooks in their order with their names, each with a Config that is not empty:
\* the configured one, or {} for an omitted one.
C12_HookLists ==
    /\ \A c \in Callers :
         ret[c].op \in BeforeHookOps \cup AfterHookOps =>
            LET configured == ConfiguredHooks(HookKeyOf(ret[c].op, ret[c].strategy))
                v == ret[c].val
            IN  /\ Len(v) = Len(configured)
                /\ \A i \in 1..Len(v) :
                     /\ v[i].Name = configured[i].hook
                     /\ Len(v[i].Config) > 0
                     /\ v[i].Config = IF configured[i].config = "" THEN "{}"
                                      ELSE configured[i].config
    /\ fatal =>
         \E c \in Callers :
            /\ local[c].op \in BeforeHookOps \cup AfterHookOps
            /\ \E i \in 1..Len(ConfiguredHooks(local[c].key)) :
                  ConfiguredHooks(local[c].key)[i].extra

C12_OmittedConfigNormalized ==
    /\ doc[<<"selfservice", "flows", "login", "after", "password", "hooks">>] =
          ListV(<<HookEntry("revoke_active_sessions", "", FALSE),
                  HookEntry("web_hook", "{\"url\":\"https://hooks.example.com/\"}",
                            FALSE)>>)
    /\ ret["a"].op = "SelfServiceFlowLoginAfterHooks"
    /\ ret["a"].strategy = "password"
    /\ ret["a"].val =
          <<SelfServiceHook("revoke_active_sessions", "{}"),
            SelfServiceHook("web_hook", "{\"url\":\"https://hooks.example.com/\"}")>>
    /\ ret["a"].n = 2

\* The mode a configured same-site string names.
SameSiteOf(v) ==
    CASE v = StrV("Lax") -> "SameSiteLaxMode"
      [] v = StrV("Strict") -> "SameSiteStrictMode"
      [] v = StrV("None") -> "SameSiteNoneMode"
      [] OTHER -> "SameSiteDefaultMode"

\* C13 as the specification words it: SessionSameSiteMode maps "Lax", "Strict"
\* and "None" to their modes and every other value, an absent key included, to
\* the default mode.
C13_AbsentIsDefaultMode ==
    \A c \in Callers :
        ret[c].op = "SessionSameSiteMode" =>
            ret[c].val = SameSiteOf(doc[<<"session", "cookie", "same_site">>])

\* C13: SessionSameSiteMode maps "Lax", "Strict" and "None" to their modes, an
\* absent key to the Lax mode, and every other configured string to the
\* default mode.
C13_SameSiteMode ==
    \A c \in Callers :
        ret[c].op = "SessionSameSiteMode" =>
            LET v == doc[<<"session", "cookie", "same_site">>]
            IN  ret[c].val = IF v = Absent THEN "SameSiteLaxMode" ELSE SameSiteOf(v)

C13_AbsentIsLax ==
    /\ doc[<<"session", "cookie", "same_site">>] = Absent
    /\ ret["a"].op = "SessionSameSiteMode"
    /\ ret["a"].val = "SameSiteLaxMode"

\* The three levels a return-to accessor resolves, from the most specific.
ReturnToLevels(op, strategy) ==
    LET flow == IF op = "SelfServiceFlowLoginReturnTo" THEN "login"
                ELSE "registration"
    IN  <<doc[<<"selfservice", "flows", flow, "after", strategy,
                "default_browser_return_url">>],
          doc[<<"selfservice", "flows", flow, "after",
                "default_browser_return_url">>],
          doc[<<"selfservice", "default_browser_return_url">>]>>

ValidURI(v) == v.kind = "string" /\ ParseRequestURI(v.str).ok

\* The URL of the first level that holds a valid request URI.
FirstValid(levels) ==
    LET i == CHOOSE i \in 1..3 :
                 ValidURI(levels[i]) /\ \A j \in 1..(i - 1) : ~ValidURI(levels[j])
    IN  ParseRequestURI(levels[i].str).url

\* C14: a return-to accessor returns the first valid level among strategy
\* override, flow override and global default, and a call that finds a valid
\* strategy or flow override returns whatever the global default holds: an
\* absent or invalid lower level does not end the process.
C14_OverrideWhateverLower ==
    /\ \A c \in Callers :
         ret[c].op \in ReturnToOps =>
            ret[c].val = FirstValid(ReturnToLevels(ret[c].op, ret[c].strategy))
    /\ \A c \in Callers :
         local[c].op \in ReturnToOps =>
            LET levels == ReturnToLevels(local[c].op, local[c].strategy)
            IN  ~ValidURI(levels[1]) /\ ~ValidURI(levels[2])

\* What the code does: a return-to accessor first parses the global default
\* return-to URL and ends the process when that is absent or invalid,
\* whatever the overrides hold; otherwise it returns the strategy override
\* when valid, else the flow override when valid, else the global default.
C14_ReturnToChain ==
    /\ \A c \in Callers :
         ret[c].op \in ReturnToOps =>
            LET levels == ReturnToLevels(ret[c].op, ret[c].strategy)
            IN  /\ ValidURI(levels[3])
                /\ ret[c].val = FirstValid(levels)
    /\ \A c \in Callers :
         local[c].op \in ReturnToOps =>
            /\ fatal
            /\ ~ValidURI(doc[<<"selfservice", "default_browser_return_url">>])
    /\ fatal => \E c \in Callers : local[c].op \in ReturnToOps

C14_FlowOverrideAfterInvalidStrategy ==
    /\ ReturnToLevels("SelfServiceFlowLoginReturnTo", "password") =
          <<StrV("not-a-url"), StrV("https://app.example.com/after-flow"),
            StrV("https://app.example.com/")>>
    /\ ret["a"].op = "SelfServiceFlowLoginReturnTo"
    /\ ret["a"].strategy = "password"
    /\ ret["a"].val = URL("https", "app.example.com", "/after-flow")

\* C15: DSN ends the process when the dsn key is absent or the empty string
\* and returns no value then; for "memory" it returns the in-memory SQLite
\* DSN, and for every other string that is not empty the string as configured.
C15_DSN ==
    /\ \A c \in Callers :
         ret[c].op = "DSN" =>
            /\ doc[<<"dsn">>] \notin {Absent, StrV("")}
            /\ ret[c].val = IF doc[<<"dsn">>] = StrV("memory")
                            THEN "sqlite://:memory:?_fk=true"
                            ELSE doc[<<"dsn">>].str
    /\ fatal <=> \E c \in Callers : local[c].op = "DSN"
    /\ fatal => doc[<<"dsn">>] \in {Absent, StrV("")}

C15_AbsentDSNFatal ==
    /\ doc[<<"dsn">>] = Absent
    /\ fatal
    /\ local["a"].op = "DSN"
    /\ ret["a"].op = "SessionSameSiteMode"

\* C16: with hashers.argon2.parallelism absent, HasherArgon2().Parallelism is
\* twice the number of processors of the host, whatever that number is; the
\* default is fixed when the process starts and no reload or Set changes it.
C16_ParallelismTwiceCPUs ==
    [][/\ Argon2DefaultParallelism' = Argon2DefaultParallelism
       /\ Argon2DefaultParallelism = 2 * numCPU
       /\ \A c \in Callers :
            (Returned(c) /\ ret'[c].op = "HasherArgon2"
             /\ doc[<<"hashers", "argon2", "parallelism">>] = Absent) =>
                ret'[c].val.Parallelism = 2 * numCPU]_vars

Argon2Key(field) == doc[<<"hashers", "argon2", field>>]

\* The configured value of an Argon2 key, or the default when it is absent.
Argon2Int(field, default) ==
    IF Argon2Key(field) = Absent THEN default ELSE Argon2Key(field).int

Argon2Text(field, value, default) ==
    IF Argon2Key(field) = Absent THEN default ELSE value[Argon2Key(field).str]

ConfiguredBytes == ("256MB" :> 256 * 1048576) @@ ("512MB" :> 512 * 1048576)

ConfiguredNanoseconds == ("1s" :> 1000000000) @@ ("250ms" :> 250000000)

\* C17: for every subset of the hashers.argon2 keys that is configured,
\* HasherArgon2 returns the configured value of each configured field and the
\* literal default of each absent one: memory 128MB, iterations 1, salt length
\* 16, key length 32, expected duration and deviation 500ms, dedicated memory
\* 1GB.
C17_IndependentDefaults ==
    \A c \in Callers :
        ret[c].op = "HasherArgon2" =>
            LET v == ret[c].val
            IN  /\ v.Memory = Argon2Text("memory", ConfiguredBytes, 128 * 1048576)
                /\ v.Iterations = Argon2Int("iterations", 1)
                /\ Argon2Key("parallelism") # Absent =>
                      v.Parallelism = Argon2Key("parallelism").int
                /\ v.SaltLength = Argon2Int("salt_length", 16)
                /\ v.KeyLength = Argon2Int("key_length", 32)
                /\ v.ExpectedDuration =
                      Argon2Text("expected_duration", ConfiguredNanoseconds, 500000000)
                /\ v.ExpectedDeviation =
                      Argon2Text("expected_deviation", ConfiguredNanoseconds, 500000000)
                /\ v.DedicatedMemory =
                      Argon2Text("dedicated_memory", ConfiguredBytes, 1073741824)

C17_OnlyIterationsConfigured ==
    /\ \A k \in Argon2Keys :
         doc[k] = IF k = <<"hashers", "argon2", "iterations">> THEN IntV(3)
                  ELSE Absent
    /\ ret["a"].op = "HasherArgon2"
    /\ ret["a"].val.Iterations = 3
    /\ ret["a"].val.SaltLength = 16
    /\ ret["a"].val.Memory = 134217728

\* C18: no accessor other than Set and the provisioning of the default secret
\* changes the document; the provisioning changes the key secrets.default
\* alone and only when the list of that key is empty, so SecretsDefault on a
\* list that is not empty and SecretsSession on a secrets.cookie list that is
\* not empty write nothing.
C18_ReadsLeaveDocument ==
    [][/\ doc' # doc =>
            \/ \E c \in Callers : Returned(c) /\ ret'[c].op = "Set"
            \/ /\ \E c \in Callers :
                    /\ Returned(c)
                    /\ ret'[c].op \in {"SecretsDefault", "SecretsSession"}
               /\ \A k \in Keys \ {<<"secrets", "default">>} : doc'[k] = doc[k]
               /\ DefaultUnset(doc)
       /\ \A c \in Callers :
            (Returned(c) /\ ret'[c].op = "SecretsSession" /\ ~CookieUnset(doc)) =>
                doc' = doc /\ writes' = writes]_vars

====
